---- MODULE Spec2Model ----
(***************************************************************************)
(* A model of the similarity-clustering and spatial-network functions of   *)
(* src/src/spatial_analysis.py and src/src/clustering.py.                  *)
(*                                                                         *)
(* Every function is a batch computation over in-memory tables.  Each      *)
(* specification below starts from one admissible input of one function    *)
(* (or of a chain of functions) and runs it; the variables are the tables  *)
(* and graphs the functions read and produce.                              *)
(***************************************************************************)
EXTENDS Integers, Sequences, FiniteSets, TLC

VARIABLES
    pc,               \* position of the run
    raised,           \* the exception that ended the run, "none" while it runs
    \* spatial_analysis.py
    gdf,              \* the county polygons read from the shapefile
    adjacency_df,     \* the adjacency list (built, or given to prepare_weighted_network_data)
    G,                \* build_adjacency_graph: the undirected nx.Graph
    degree_df,        \* get_degree_centrality: the returned table
    data,             \* the table passed as data (prepare_weighted_network_data,
                      \* analyze_cluster_characteristics)
    year,             \* prepare_weighted_network_data: the target year
    network_data,     \* the weighted network rows (prepared, or given to calculate_pagerank)
    DG,               \* calculate_pagerank: the nx.DiGraph G
    row_i,            \* calculate_pagerank: the row the loop of lines 92-101 is at
    pagerank_df,      \* calculate_pagerank: the returned table
    max_county,       \* calculate_pagerank: the returned (STATE, COUNTY, PageRank) of iloc[0]
    \* clustering.py
    flattened_features, \* calculate_county_similarity: the feature table
    similarity_df,    \* the similarity matrix handed to the function
    n,                \* get_top_similar_pairs: n
    similarity_long,  \* get_top_similar_pairs: the returned triples
    n_clusters,       \* perform_clustering: n_clusters
    kmeans_labels,    \* perform_clustering: the labels the seeded K-Means fit assigns
    distance_matrix,  \* perform_clustering: distance_matrix after line 108
    clustered_df,     \* perform_clustering: the returned table
    n_samples,        \* evaluate_clustering_performance: rows of distance_matrix
    k_range,          \* evaluate_clustering_performance: list(k_range)
    k_i,              \* evaluate_clustering_performance: position of the loop in k_range
    fits,             \* evaluate_clustering_performance: the k whose K-Means fit has run
    inertia,          \* evaluate_clustering_performance: inertia
    silhouette_scores,\* evaluate_clustering_performance: silhouette_scores
    metrics,          \* evaluate_clustering_performance: the returned dict
    merged_df,        \* analyze_cluster_characteristics: merged
    cluster_summary   \* analyze_cluster_characteristics: the returned table

adjVars  == <<gdf, G, degree_df>>
netVars  == <<data, year, network_data, DG, row_i>>
pairVars == <<n, similarity_long>>
cluVars  == <<n_clusters, kmeans_labels, distance_matrix, clustered_df>>
evalVars == <<n_samples, k_range, k_i, fits, inertia, silhouette_scores, metrics>>
rankVars == <<pagerank_df, max_county>>
charVars == <<merged_df, cluster_summary>>

vars == <<pc, raised, adjacency_df, similarity_df, adjVars, netVars, pairVars, cluVars, evalVars,
          rankVars, flattened_features, charVars>>

(***************************************************************************)
(* Bounds.                                                                 *)
(***************************************************************************)
NumCounties == 4

(***************************************************************************)
(* Generic helpers.                                                        *)
(***************************************************************************)
Range(s) == {s[x] : x \in DOMAIN s}

RECURSIVE SeqsUpTo(_, _)
SeqsUpTo(S, len) ==
    IF len = 0 THEN {<<>>}
    ELSE LET shorter == SeqsUpTo(S, len - 1)
         IN  shorter \cup {Append(s, x) : s \in {t \in shorter : Len(t) = len - 1}, x \in S}

\* nx.DiGraph: nodes in insertion order, directed edges <<u, v>>, and the
\* 'weight' attribute of every edge.
EmptyDiGraph == [nodes |-> <<>>, edges |-> {}, weight |-> <<>>]

(***************************************************************************)
(* spatial_analysis.py: build_adjacency_graph                              *)
(***************************************************************************)

\* The (STATE, COUNTY) key of the i-th polygon of the shapefile.  Keys are
\* integers (lines 16-17) and every county has one polygon.
CountyKey(i) == <<1 + (i % 2), i>>

\* A shapefile: its rows in file order, and the geometric touches relation
\* between rows (row indices).  touches is symmetric and irreflexive: a
\* polygon shares interior points with itself.
Shapefiles ==
    LET idx   == 1..NumCounties
        pairs == {p \in idx \X idx : p[1] < p[2]}
    IN  {[keys    |-> [i \in idx |-> CountyKey(i)],
          touches |-> {p \in idx \X idx : <<p[1], p[2]>> \in E \/ <<p[2], p[1]>> \in E}]
           : E \in SUBSET pairs}

AdjRow(county, neighbor) ==
    [County_STATE   |-> county[1],   COUNTY          |-> county[2],
     Neighbor_STATE |-> neighbor[1], Neighbor_COUNTY |-> neighbor[2]]

\* lines 23-31: the rows appended for one county, neighbours in file order.
RECURSIVE TouchingRows(_, _, _)
TouchingRows(g, idx, j) ==
    IF j > Len(g.keys) THEN <<>>
    ELSE (IF <<idx, j>> \in g.touches
             THEN <<AdjRow(g.keys[idx], g.keys[j])>> ELSE <<>>)
         \o TouchingRows(g, idx, j + 1)

\* lines 20-31: adjacency_list after the loop over gdf.iterrows().
RECURSIVE AdjacencyList(_, _)
AdjacencyList(g, idx) ==
    IF idx > Len(g.keys) THEN <<>>
    ELSE TouchingRows(g, idx, 1) \o AdjacencyList(g, idx + 1)

\* line 34: DataFrame.drop_duplicates keeps the first of equal rows.
RECURSIVE DropDuplicates(_)
DropDuplicates(s) ==
    IF s = <<>> THEN <<>>
    ELSE LET front == DropDuplicates(SubSeq(s, 1, Len(s) - 1))
             last  == s[Len(s)]
         IN  IF last \in Range(front) THEN front ELSE Append(front, last)

\* lines 35-37: the lexicographic order of the four sort columns.
AdjRowLess(a, b) ==
    LET ka == <<a.County_STATE, a.COUNTY, a.Neighbor_STATE, a.Neighbor_COUNTY>>
        kb == <<b.County_STATE, b.COUNTY, b.Neighbor_STATE, b.Neighbor_COUNTY>>
    IN  \E p \in 1..4 : /\ ka[p] < kb[p]
                        /\ \A q \in 1..(p - 1) : ka[q] = kb[q]

\* A mutant of SortValues: the rows left in the order the loop appended them.
SortValues_AppendOrder(s) == s

\* lines 35-37: sort_values on all four columns.  Rows equal in all four sort
\* columns are equal rows, so the sorted order does not depend on the sort kind.
RECURSIVE SortValues(_)
SortValues(s) ==
    IF s = <<>> THEN <<>>
    ELSE LET m == CHOOSE x \in DOMAIN s :
                    \A y \in DOMAIN s : ~AdjRowLess(s[y], s[x]) /\ (s[y] = s[x] => x <= y)
         IN  <<s[m]>> \o SortValues(SubSeq(s, 1, m - 1) \o SubSeq(s, m + 1, Len(s)))

\* nx.Graph: nodes in insertion order, edges as unordered pairs ({u} is a self-loop).
EmptyGraph == [nodes |-> <<>>, edges |-> {}]

AddNode(nodes, u) == IF u \in Range(nodes) THEN nodes ELSE Append(nodes, u)

\* line 44: G.add_edge(county, neighbor)
AddEdge(g, u, v) ==
    [nodes |-> AddNode(AddNode(g.nodes, u), v), edges |-> g.edges \cup {{u, v}}]

\* lines 39-44: the graph built from the rows of adjacency_df, in row order.
RECURSIVE GraphOf(_)
GraphOf(df) ==
    IF df = <<>> THEN EmptyGraph
    ELSE LET row == df[Len(df)]
         IN  AddEdge(GraphOf(SubSeq(df, 1, Len(df) - 1)),
                     <<row.County_STATE, row.COUNTY>>,
                     <<row.Neighbor_STATE, row.Neighbor_COUNTY>>)

\* lines 10-46.  pd.DataFrame([]) has no columns: with no touching pair at all
\* sort_values raises KeyError for 'County_STATE' and nothing is returned.
BuildAdjacencyGraph ==
    /\ pc = "shapefile"
    /\ LET adjacency_list == AdjacencyList(gdf, 1)
       IN  IF adjacency_list = <<>>
           THEN /\ pc' = "raised"
                /\ raised' = "KeyError"
                /\ UNCHANGED <<adjacency_df, G>>
           ELSE /\ pc' = "built"
                /\ adjacency_df' = SortValues(DropDuplicates(adjacency_list))
                /\ G' = GraphOf(adjacency_df')
                /\ UNCHANGED raised
    /\ UNCHANGED <<gdf, degree_df, similarity_df, netVars, pairVars, cluVars, evalVars,
                   rankVars, flattened_features, charVars>>

(***************************************************************************)
(* spatial_analysis.py: get_degree_centrality                              *)
(***************************************************************************)

\* A mutant of Degree: the degree of a directed graph built from the
\* symmetric list, every neighbour counted as in- and as out-edge.
Degree_InAndOut(g, v) == 2 * Cardinality({e \in g.edges : v \in e /\ e # {v}})

\* line 126: nx degree; a self-loop counts twice.
Degree(g, v) ==
    Cardinality({e \in g.edges : v \in e /\ e # {v}})
      + (IF {v} \in g.edges THEN 2 ELSE 0)

\* lines 126-136: one row per node of the graph, in node (insertion) order.
DegreeRows(g) ==
    [p \in DOMAIN g.nodes |->
        [STATE |-> g.nodes[p][1], COUNTY |-> g.nodes[p][2], Degree |-> Degree(g, g.nodes[p])]]

\* The row orders sort_values(by=col, ascending=False) can produce, as
\* sequences of row positions; keys[p] is the sort column of row p.  kind
\* defaults to 'quicksort', which numpy documents as not stable, so rows with
\* equal keys may come out in any order.
RECURSIVE DescendingOrders(_, _)
DescendingOrders(keys, left) ==
    IF left = {} THEN {<<>>}
    ELSE UNION {{<<p>> \o rest : rest \in DescendingOrders(keys, left \ {p})}
                  : p \in {q \in left : \A r \in left : keys[q] >= keys[r]}}

\* line 138
SortByDegree(rows) ==
    {[p \in DOMAIN order |-> rows[order[p]]]
        : order \in DescendingOrders([p \in DOMAIN rows |-> rows[p].Degree], DOMAIN rows)}

\* lines 122-138
GetDegreeCentrality ==
    /\ pc = "built"
    /\ \E sorted \in SortByDegree(DegreeRows(G)) : degree_df' = sorted
    /\ pc' = "degree"
    /\ UNCHANGED <<raised, gdf, adjacency_df, G, similarity_df, netVars, pairVars, cluVars, evalVars,
                   rankVars, flattened_features, charVars>>

(***************************************************************************)
(* spatial_analysis.py: prepare_weighted_network_data                      *)
(***************************************************************************)

\* A missing cell of a table (pandas NaN): what a left merge leaves where no
\* row matched, and what dropna (line 81) looks for.
NaN == -1

\* A float as the fraction num/den in lowest terms; den = 0 is the float NaN.
FloatNaN == [num |-> 0, den |-> 0]

IsNaN(x) == x.den = 0

RECURSIVE GCD(_, _)
GCD(a, b) == IF b = 0 THEN a ELSE GCD(b, a % b)

Fraction(num, den) ==
    IF den = 0 THEN FloatNaN
    ELSE LET g == GCD(IF num < 0 THEN -num ELSE num, den)
         IN  [num |-> num \div g, den |-> den \div g]

RECURSIVE SumSeq(_)
SumSeq(s) == IF s = <<>> THEN 0 ELSE s[1] + SumSeq(Tail(s))

IsNumber(v) == v # NaN

\* line 55: the mean of a group skips missing cells; a group with no value
\* has the mean NaN.
Mean(cells) ==
    LET present == SelectSeq(cells, IsNumber)
    IN  Fraction(SumSeq(present), Len(present))

\* lines 53-55: the rows of the target year grouped by (STATE, COUNTY, YEAR),
\* one row per group: a function from the group's (STATE, COUNTY) to its
\* YEAR and mean metric.
MetricData(table, target) ==
    LET InYear(r) == r.YEAR = target
        rows   == SelectSeq(table, InYear)
        groups == {<<rows[p].STATE, rows[p].COUNTY>> : p \in DOMAIN rows}
    IN  [g \in groups |->
            LET InGroup(r) == <<r.STATE, r.COUNTY>> = g
                members    == SelectSeq(rows, InGroup)
            IN  [YEAR   |-> target,
                 metric |-> Mean([p \in DOMAIN members |-> members[p].metric])]]

\* lines 57-65: the left merge on the source county, metric renamed
\* <metric>_County.  metric_data holds one row per county, so every left row
\* yields one row, in the left order; an unmatched row gets missing cells.
MergeCounty(adjacency, metric_data) ==
    [p \in DOMAIN adjacency |->
        LET row == adjacency[p]
            key == <<row.County_STATE, row.COUNTY>>
        IN  [County_STATE   |-> row.County_STATE,   COUNTY          |-> row.COUNTY,
             Neighbor_STATE |-> row.Neighbor_STATE, Neighbor_COUNTY |-> row.Neighbor_COUNTY,
             YEAR           |-> IF key \in DOMAIN metric_data
                                   THEN metric_data[key].YEAR ELSE NaN,
             metric_County  |-> IF key \in DOMAIN metric_data
                                   THEN metric_data[key].metric ELSE FloatNaN]]

\* lines 67-76: the left merge on the neighbor county, metric renamed
\* <metric>_Neighbor; the right table's YEAR and COUNTY get the suffix
\* _Neighbor and are not selected at line 78.
MergeNeighbor(merged, metric_data) ==
    [p \in DOMAIN merged |->
        LET row == merged[p]
            key == <<row.Neighbor_STATE, row.Neighbor_COUNTY>>
        IN  [YEAR            |-> row.YEAR,
             County_STATE    |-> row.County_STATE,   COUNTY          |-> row.COUNTY,
             metric_County   |-> row.metric_County,
             Neighbor_STATE  |-> row.Neighbor_STATE, Neighbor_COUNTY |-> row.Neighbor_COUNTY,
             metric_Neighbor |-> IF key \in DOMAIN metric_data
                                    THEN metric_data[key].metric ELSE FloatNaN]]

HasNoMissingCell(row) ==
    /\ row.YEAR # NaN
    /\ ~IsNaN(row.metric_County)
    /\ ~IsNaN(row.metric_Neighbor)

\* A mutant of DropNa: fillna(0) in place of dropna(), every row kept.
DropNa_FillZero(rows) ==
    [p \in DOMAIN rows |->
        [rows[p] EXCEPT !.YEAR            = IF @ = NaN THEN 0 ELSE @,
                        !.metric_County   = IF IsNaN(@) THEN Fraction(0, 1) ELSE @,
                        !.metric_Neighbor = IF IsNaN(@) THEN Fraction(0, 1) ELSE @]]

\* line 81: dropna() drops every row with a missing cell.
DropNa(rows) == SelectSeq(rows, HasNoMissingCell)

\* lines 49-83.  adjacency_df is a given list, or the one
\* build_adjacency_graph has returned.
PrepareWeightedNetworkData ==
    /\ pc \in {"adjacency", "built"}
    /\ LET metric_data == MetricData(data, year)
           merged      == MergeCounty(adjacency_df, metric_data)
           final       == MergeNeighbor(merged, metric_data)
       IN  network_data' = DropNa(final)
    /\ pc' = "prepared"
    /\ UNCHANGED <<raised, adjacency_df, similarity_df, adjVars, data, year, DG, row_i,
                   pairVars, cluVars, evalVars,
                   rankVars, flattened_features, charVars>>

\* The counties, years and metric cells of the tables given to
\* prepare_weighted_network_data.
NetCounties == {CountyKey(1), CountyKey(2)}

Years == {2019, 2020}

MetricCells == {NaN, 1, 2}

MaxAdjRows == 2

MaxDataRows == 2

AdjacencyRows == {AdjRow(c, d) : c \in NetCounties, d \in NetCounties}

DataRows ==
    {[STATE |-> c[1], COUNTY |-> c[2], YEAR |-> y, metric |-> m]
        : c \in NetCounties, y \in Years, m \in MetricCells}

(***************************************************************************)
(* spatial_analysis.py: calculate_pagerank, the graph of lines 90-101      *)
(***************************************************************************)

\* nx.DiGraph.add_edge(u, v, weight=w): a new edge, or the new weight of the
\* edge that is there.
DiAddEdge(g, u, v, w) ==
    [nodes  |-> AddNode(AddNode(g.nodes, u), v),
     edges  |-> g.edges \cup {<<u, v>>},
     weight |-> [e \in g.edges \cup {<<u, v>>} |-> IF e = <<u, v>> THEN w ELSE g.weight[e]]]

\* A mutant of PagerankRow: the edge to the neighbor weighted with the
\* source county's metric.
PagerankRow_SourceMetric(g, row) ==
    LET source == <<row.County_STATE, row.COUNTY>>
        target == <<row.Neighbor_STATE, row.Neighbor_COUNTY>>
        g1     == DiAddEdge(g, source, target, row.metric_County)
    IN  IF <<source, source>> \notin g1.edges
        THEN DiAddEdge(g1, source, source, row.metric_County)
        ELSE g1

\* lines 93-101: the loop body for one row.
PagerankRow(g, row) ==
    LET source == <<row.County_STATE, row.COUNTY>>
        target == <<row.Neighbor_STATE, row.Neighbor_COUNTY>>
        g1     == DiAddEdge(g, source, target, row.metric_Neighbor)
    IN  IF <<source, source>> \notin g1.edges
        THEN DiAddEdge(g1, source, source, row.metric_County)
        ELSE g1

\* lines 92-101: one iteration of the loop over network_data.iterrows(); after
\* the last row the graph is the one handed to nx.pagerank.  network_data is a
\* given table, or the one prepare_weighted_network_data has returned.
CalculatePagerankRow ==
    /\ pc \in {"pagerank", "prepared"}
    /\ row_i \in DOMAIN network_data
    /\ DG' = PagerankRow(DG, network_data[row_i])
    /\ row_i' = row_i + 1
    /\ pc' = IF row_i = Len(network_data) THEN "graph" ELSE "pagerank"
    /\ UNCHANGED <<raised, adjacency_df, similarity_df, adjVars, data, year, network_data,
                   pairVars, cluVars, evalVars,
                   rankVars, flattened_features, charVars>>

\* line 103: nx.pagerank(G, weight='weight') runs with networkx's defaults
\* alpha = 0.85, max_iter = 100 and tol = 1.0e-6.  Scores are kept in fixed
\* point, in units of tol: Unit stands for 1.0, and the float rounding of the
\* library is the truncation of the integer division.
AlphaPercent == 85

MaxIter == 100

Unit == 1000000

Abs(x) == IF x < 0 THEN -x ELSE x

Lcm(a, b) == (a * b) \div GCD(a, b)

\* A function over 1..N held as an array: every element is computed once.
AsArray(f) == SubSeq(f, 1, Len(f))

RECURSIVE LcmOfDens(_, _)
LcmOfDens(g, edges) ==
    IF edges = {} THEN 1
    ELSE LET e == CHOOSE x \in edges : TRUE
         IN  Lcm(g.weight[e].den, LcmOfDens(g, edges \ {e}))

\* The weight matrix of the graph over its node list, every weight multiplied
\* by the common denominator of all weights; no edge is weight 0.
WeightMatrix(g) ==
    LET scale == LcmOfDens(g, g.edges)
    IN  AsArray([p \in DOMAIN g.nodes |-> AsArray([q \in DOMAIN g.nodes |->
            LET e == <<g.nodes[p], g.nodes[q]>>
            IN  IF e \in g.edges THEN g.weight[e].num * (scale \div g.weight[e].den) ELSE 0])])

\* One step of the power iteration:
\*   x = alpha * (x @ A + sum(x[is_dangling]) * dangling_weights) + (1 - alpha) * p
\* with A the row-normalised weight matrix and p = dangling_weights = 1/N.
PowerStep(A, x) ==
    LET N        == Len(x)
        S        == AsArray([p \in 1..N |-> SumSeq(A[p])])
        dangling == SumSeq([p \in 1..N |-> IF S[p] = 0 THEN x[p] ELSE 0])
    IN  AsArray([q \in 1..N |->
            (AlphaPercent * (SumSeq([p \in 1..N |->
                                 IF S[p] = 0 THEN 0 ELSE (x[p] * A[p][q]) \div S[p]])
                             + dangling \div N)
             + (100 - AlphaPercent) * (Unit \div N)) \div 100])

\* The loop over range(max_iter): it returns x once the L1 distance to the
\* previous x is below N * tol, and raises PowerIterationFailedConvergence
\* after max_iter steps.
RECURSIVE PowerIteration(_, _, _)
PowerIteration(A, x, iter) ==
    IF iter = MaxIter THEN [converged |-> FALSE, x |-> x]
    ELSE LET xnext == PowerStep(A, x)
             err   == SumSeq([p \in DOMAIN x |-> Abs(xnext[p] - x[p])])
         IN  IF err < Len(x) THEN [converged |-> TRUE, x |-> xnext]
             ELSE PowerIteration(A, xnext, iter + 1)

\* line 103: the scores of the nodes, in node order, from the start x = 1/N.
Pagerank(g) ==
    PowerIteration(WeightMatrix(g), AsArray([p \in DOMAIN g.nodes |-> Unit \div Len(g.nodes)]), 0)

\* lines 105-113: one row per node, in node order.
PagerankRows(g, scores) ==
    [p \in DOMAIN g.nodes |->
        [County_STATE |-> g.nodes[p][1], COUNTY |-> g.nodes[p][2], PageRank |-> scores[p]]]

\* A mutant of SortByPageRank: ascending=True.
SortByPageRank_Ascending(rows) ==
    {[p \in DOMAIN order |-> rows[order[p]]]
        : order \in DescendingOrders([p \in DOMAIN rows |-> 0 - rows[p].PageRank], DOMAIN rows)}

\* line 115: sort_values(by='PageRank', ascending=False)
SortByPageRank(rows) ==
    {[p \in DOMAIN order |-> rows[order[p]]]
        : order \in DescendingOrders([p \in DOMAIN rows |-> rows[p].PageRank], DOMAIN rows)}

\* lines 103-119, after the loop.  For an empty network_data the graph is
\* empty, nx.pagerank returns {} and line 110 assigns a frame without columns
\* to two columns: pandas raises ValueError.
CalculatePagerankScores ==
    /\ pc = "graph" \/ (pc \in {"pagerank", "prepared"} /\ network_data = <<>>)
    /\ IF DG.nodes = <<>>
       THEN /\ pc' = "raised"
            /\ raised' = "ValueError"
            /\ UNCHANGED rankVars
       ELSE LET result == Pagerank(DG)
            IN  IF ~result.converged
                THEN /\ pc' = "raised"
                     /\ raised' = "PowerIterationFailedConvergence"
                     /\ UNCHANGED rankVars
                ELSE /\ \E sorted \in SortByPageRank(PagerankRows(DG, result.x)) :
                           /\ pagerank_df' = sorted
                           /\ max_county' = <<sorted[1].County_STATE, sorted[1].COUNTY,
                                              sorted[1].PageRank>>
                     /\ pc' = "ranked"
                     /\ UNCHANGED raised
    /\ UNCHANGED <<adjacency_df, similarity_df, adjVars, netVars, pairVars, cluVars, evalVars,
                   flattened_features, charVars>>

\* The rows of a table given to calculate_pagerank: any source, neighbor and
\* metric values.
MaxNetRows == 3

MetricValues == {Fraction(1, 1), Fraction(2, 1)}

NetworkRows ==
    {[YEAR            |-> 2020,
      County_STATE    |-> c[1], COUNTY          |-> c[2], metric_County   |-> mc,
      Neighbor_STATE  |-> d[1], Neighbor_COUNTY |-> d[2], metric_Neighbor |-> md]
        : c \in NetCounties, d \in NetCounties, mc \in MetricValues, md \in MetricValues}

\* The metric tables of the pipeline shapefile -> adjacency list -> weighted
\* rows -> PageRank: one row of the target year for every county of the
\* shapefile, or for every county but the first or but the second; the metric
\* is uniformly 1 or the county's number.
TargetYear == 2020

MetricTable(missing, uniform) ==
    SelectSeq([i \in 1..NumCounties |->
                  [STATE |-> CountyKey(i)[1], COUNTY |-> CountyKey(i)[2], YEAR |-> TargetYear,
                   metric |-> IF uniform THEN 1 ELSE CountyKey(i)[2]]],
              LAMBDA r : r.COUNTY # missing)

MetricTables == {MetricTable(missing, uniform) : missing \in {0, 1, 2}, uniform \in BOOLEAN}

(***************************************************************************)
(* clustering.py: calculate_county_similarity                              *)
(***************************************************************************)

\* A string is the sequence of its characters.
DigitChar(d) == <<"0", "1", "2", "3", "4", "5", "6", "7", "8", "9">>[d + 1]

\* The decimal digits of a natural number.
RECURSIVE Digits(_)
Digits(x) == IF x < 10 THEN <<DigitChar(x)>> ELSE Append(Digits(x \div 10), DigitChar(x % 10))

Zeros(count) == [p \in 1..count |-> "0"]

\* A mutant of FormatD: the plain format spec 'd', no zero padding.
FormatD_Unpadded(x, width) ==
    IF x < 0 THEN <<"-">> \o Digits(0 - x) ELSE Digits(x)

\* lines 24-26: the format spec '0<width>d' of an f-string: the sign first,
\* then the digits padded with zeros to the width; a longer number is not cut.
FormatD(x, width) ==
    LET digits == Digits(Abs(x))
        sign   == IF x < 0 THEN <<"-">> ELSE <<>>
    IN  sign \o Zeros(width - Len(sign) - Len(digits)) \o digits

\* lines 24-26: f"{int(x[0]):02d}{int(x[1]):03d}" of an index entry.
FormatGeoid(key) == FormatD(key[1], 2) \o FormatD(key[2], 3)

\* A fraction of any two integers, and the arithmetic of fractions.
Frac(num, den) ==
    IF den < 0 THEN Fraction(0 - num, 0 - den) ELSE Fraction(num, den)

FracAdd(a, b) == Frac(a.num * b.den + b.num * a.den, a.den * b.den)

FracMul(a, b) == Frac(a.num * b.num, a.den * b.den)

RECURSIVE FracSum(_)
FracSum(s) == IF s = <<>> THEN Fraction(0, 1) ELSE FracAdd(s[1], FracSum(Tail(s)))

\* line 20, StandardScaler.fit: the deviation of cell (r, c) from the mean of
\* its column, times the number of rows, and the sum of the squares of a
\* column's deviations (the column's variance times the number of rows cubed).
Deviation(values, r, c) ==
    Len(values) * values[r][c] - SumSeq([p \in DOMAIN values |-> values[p][c]])

SquaredDeviations(values, c) ==
    SumSeq([p \in DOMAIN values |-> Deviation(values, p, c) * Deviation(values, p, c)])

HasZeroVariance(values, c) == SquaredDeviations(values, c) = 0

\* lines 20-22: the dot product of two rows of scaled_features.  A cell is
\* scaled to (x - mean) / sqrt(variance); StandardScaler divides a column of
\* zero variance by 1 instead, which leaves the column at 0.
ScaledDot(values, r1, r2) ==
    FracSum([c \in DOMAIN values[1] |->
                IF HasZeroVariance(values, c) THEN Fraction(0, 1)
                ELSE Frac(Len(values) * Deviation(values, r1, c) * Deviation(values, r2, c),
                          SquaredDeviations(values, c))])

Sign(x) == IF x < 0 THEN 0 - 1 ELSE IF x = 0 THEN 0 ELSE 1

\* line 22: the cosine of two scaled rows, kept exactly as its sign and its
\* square; cosine_similarity divides a row of norm 0 by 1, so its cosine
\* with every row is 0.
Cosine(values, r1, r2) ==
    LET dot   == ScaledDot(values, r1, r2)
        norms == FracMul(ScaledDot(values, r1, r1), ScaledDot(values, r2, r2))
    IN  IF norms.num = 0 THEN [sign |-> 0, square |-> Fraction(0, 1)]
        ELSE [sign   |-> Sign(dot.num),
              square |-> FracMul(FracMul(dot, dot), Frac(norms.den, norms.num))]

HasMissingCell(values) ==
    \E r \in DOMAIN values : \E c \in DOMAIN values[r] : values[r][c] = NaN

\* lines 22-32: the similarity matrix, indexed by the identifiers.
SimilarityFrame(features) ==
    [index  |-> [p \in DOMAIN features.index |-> FormatGeoid(features.index[p])],
     values |-> [r1 \in DOMAIN features.values |->
                    [r2 \in DOMAIN features.values |-> Cosine(features.values, r1, r2)]]]

\* lines 15-34.  StandardScaler passes a missing cell on and
\* cosine_similarity raises ValueError for an input that holds NaN; nothing
\* else is validated.
CalculateCountySimilarity ==
    /\ pc = "features"
    /\ IF HasMissingCell(flattened_features.values)
       THEN /\ pc' = "raised"
            /\ raised' = "ValueError"
            /\ UNCHANGED similarity_df
       ELSE /\ pc' = "similarity"
            /\ similarity_df' = SimilarityFrame(flattened_features)
            /\ UNCHANGED raised
    /\ UNCHANGED <<adjacency_df, adjVars, netVars, pairVars, cluVars, evalVars,
                   rankVars, flattened_features, charVars>>

\* The feature tables given to calculate_county_similarity: one row per
\* county, indexed by (STATE, COUNTY), with the numeric columns FeatureCols.
MaxFeatureRows == 3

FeatureCols == <<"feature_1", "feature_2">>

FeatureCells == {NaN, 0, 1, 2}

FeatureTables(rows) ==
    {[index |-> [p \in 1..rows |-> CountyKey(p)], values |-> v]
        : v \in [1..rows -> [DOMAIN FeatureCols -> FeatureCells]]}

(***************************************************************************)
(* clustering.py: get_top_similar_pairs                                    *)
(***************************************************************************)

\* The 5-digit county identifiers that key a similarity matrix.
GeoIds == <<"01001", "01003", "02013">>

\* A similarity matrix: a square DataFrame whose index and columns are the
\* same identifiers; values[r][c] is the cell of row r and column c.
SimilarityFrames(ids, cells) ==
    {[index |-> ids, values |-> m] : m \in [DOMAIN ids -> [DOMAIN ids -> cells]]}

Min(a, b) == IF a <= b THEN a ELSE b

\* lines 41-42: unstack() walks the columns and, within a column, the rows;
\* GEOID_1 is the column's label and GEOID_2 the row's.
Unstack(df) ==
    LET size == Len(df.index)
    IN  [p \in 1..(size * size) |->
            LET c == ((p - 1) \div size) + 1
                r == ((p - 1) % size) + 1
            IN  [GEOID_1 |-> df.index[c], GEOID_2 |-> df.index[r],
                 Similarity |-> df.values[r][c]]]

IsNotSelfPair(row) == row.GEOID_1 # row.GEOID_2

\* lines 44-45
DropSelfPairs(rows) == SelectSeq(rows, IsNotSelfPair)

\* A mutant of SortBySimilarity: ascending=False left out, the default
\* ascending order.
SortBySimilarity_Ascending(rows) ==
    {[p \in DOMAIN order |-> rows[order[p]]]
        : order \in DescendingOrders([p \in DOMAIN rows |-> 0 - rows[p].Similarity], DOMAIN rows)}

\* line 46: sort_values(by='Similarity', ascending=False), kind 'quicksort'.
SortBySimilarity(rows) ==
    {[p \in DOMAIN order |-> rows[order[p]]]
        : order \in DescendingOrders([p \in DOMAIN rows |-> rows[p].Similarity], DOMAIN rows)}

\* line 46: head(n), n >= 0
Head_n(rows, count) == SubSeq(rows, 1, Min(count, Len(rows)))

\* lines 37-48
GetTopSimilarPairs ==
    /\ pc = "similarity"
    /\ \E sorted \in SortBySimilarity(DropSelfPairs(Unstack(similarity_df))) :
          similarity_long' = Head_n(sorted, n)
    /\ pc' = "pairs"
    /\ UNCHANGED <<raised, adjacency_df, similarity_df, adjVars, netVars, n, cluVars, evalVars,
                   rankVars, flattened_features, charVars>>

\* The inputs of get_top_similar_pairs.
PairSimilarities == {1, 2}

MaxN == 7

(***************************************************************************)
(* clustering.py: perform_clustering                                       *)
(***************************************************************************)

MatrixCells(m) == {m[r][c] : r \in DOMAIN m, c \in DOMAIN m}

MinOf(S) == CHOOSE x \in S : \A y \in S : x <= y

MaxOf(S) == CHOOSE x \in S : \A y \in S : x >= y

\* line 105: min-max normalisation with the minimum and maximum of the whole
\* matrix.  numpy divides 0 by 0 to NaN (a warning, no exception).
Normalise(m) ==
    LET lo == MinOf(MatrixCells(m))
        hi == MaxOf(MatrixCells(m))
    IN  [r \in DOMAIN m |-> [c \in DOMAIN m |-> Fraction(m[r][c] - lo, hi - lo)]]

\* line 107: 1 - similarity; 1 - NaN is NaN.
OneMinus(m) ==
    [r \in DOMAIN m |-> [c \in DOMAIN m |->
        IF IsNaN(m[r][c]) THEN FloatNaN
        ELSE Fraction(m[r][c].den - m[r][c].num, m[r][c].den)]]

\* line 108: np.fill_diagonal(distance_matrix, 0)
FillDiagonal(m) ==
    [r \in DOMAIN m |-> [c \in DOMAIN m |-> IF r = c THEN Fraction(0, 1) ELSE m[r][c]]]

\* lines 104-108
DistanceMatrix(df) == FillDiagonal(OneMinus(Normalise(df.values)))

HasNaN(m) == \E r \in DOMAIN m, c \in DOMAIN m : IsNaN(m[r][c])

\* A mutant of FitPredict: KMeans without random_state, the labels of every
\* fit drawn afresh.
FitPredict_Unseeded(labels) == TRUE

\* lines 110-111: KMeans(n_clusters=n_clusters, random_state=42).fit_predict.
\* With the seed fixed the labels are a function of the matrix and of
\* n_clusters: they are kmeans_labels.
FitPredict(labels) == labels = kmeans_labels

\* lines 100-118.  KMeans.fit_predict raises ValueError for an input that
\* holds NaN and for n_clusters > n_samples; otherwise the fit assigns one
\* label of 0..n_clusters-1 to every row.  The function keeps no state, so it
\* can be called again on the same similarity_df and n_clusters.
PerformClustering ==
    /\ pc \in {"similarity", "clustered"}
    /\ distance_matrix' = DistanceMatrix(similarity_df)
    /\ IF HasNaN(distance_matrix') \/ n_clusters > Len(similarity_df.index)
       THEN /\ pc' = "raised"
            /\ raised' = "ValueError"
            /\ UNCHANGED clustered_df
       ELSE /\ pc' = IF pc = "similarity" THEN "clustered" ELSE "clustered_again"
            /\ \E labels \in [DOMAIN similarity_df.index -> 0..(n_clusters - 1)] :
                  /\ FitPredict(labels)
                  /\ clustered_df' = [p \in DOMAIN similarity_df.index |->
                                         [GEOID |-> similarity_df.index[p], Cluster |-> labels[p]]]
            /\ UNCHANGED raised
    /\ UNCHANGED <<adjacency_df, similarity_df, adjVars, netVars, pairVars,
                   n_clusters, kmeans_labels, evalVars,
                   rankVars, flattened_features, charVars>>

\* The inputs of perform_clustering: similarities on an integer scale.
ClusterIds == SubSeq(GeoIds, 1, 2)

MaxSim == 2

MaxClusters == 3

(***************************************************************************)
(* clustering.py: evaluate_clustering_performance                          *)
(***************************************************************************)

\* The values a fit yields for one k, kept as the name of what was computed.
InertiaOf(k) == [value |-> "inertia_", k |-> k]

SilhouetteOf(k) == [value |-> "silhouette_score", k |-> k]

\* lines 58-65: one iteration of the loop over k_range.  KMeans.fit_predict
\* raises ValueError when k exceeds the rows of the matrix; silhouette_score
\* raises ValueError unless the fit's labels take more than 1 and fewer than
\* n_samples distinct values.  How many distinct labels the fit assigns (at
\* most k) depends on the matrix.
EvaluateIteration ==
    /\ pc = "evaluate"
    /\ k_i \in DOMAIN k_range
    /\ LET k == k_range[k_i]
       IN  IF k > n_samples
           THEN /\ pc' = "raised"
                /\ raised' = "ValueError"
                /\ UNCHANGED <<k_i, fits, inertia, silhouette_scores>>
           ELSE /\ fits' = Append(fits, k)
                /\ inertia' = Append(inertia, InertiaOf(k))
                /\ \E n_labels \in 1..k :
                      IF 1 < n_labels /\ n_labels < n_samples
                      THEN /\ silhouette_scores' = Append(silhouette_scores, SilhouetteOf(k))
                           /\ k_i' = k_i + 1
                           /\ UNCHANGED <<pc, raised>>
                      ELSE /\ pc' = "raised"
                           /\ raised' = "ValueError"
                           /\ UNCHANGED <<k_i, silhouette_scores>>
    /\ UNCHANGED <<adjacency_df, similarity_df, adjVars, netVars, pairVars, cluVars,
                   n_samples, k_range, metrics,
                   rankVars, flattened_features, charVars>>

\* A mutant of MetricsDict: the dict also names the k of the best silhouette.
MetricsDict_WithBestK(ks, ine, sil) ==
    [k_values |-> ks, inertia |-> ine, silhouette |-> sil,
     best_k |-> IF ks = <<>> THEN 0 ELSE ks[1]]

\* lines 67-71: the returned dict.
MetricsDict(ks, ine, sil) ==
    [k_values |-> ks, inertia |-> ine, silhouette |-> sil]

\* lines 67-71: the loop is over; the dict is returned.
EvaluateReturn ==
    /\ pc = "evaluate"
    /\ k_i = Len(k_range) + 1
    /\ metrics' = MetricsDict(k_range, inertia, silhouette_scores)
    /\ pc' = "returned"
    /\ UNCHANGED <<raised, adjacency_df, similarity_df, adjVars, netVars, pairVars, cluVars,
                   n_samples, k_range, k_i, fits, inertia, silhouette_scores,
                   rankVars, flattened_features, charVars>>

\* The inputs of evaluate_clustering_performance: a matrix of up to
\* MaxSamples rows and k_range = range(lo, hi) with hi <= MaxK + 1.
MaxSamples == 5

MaxK == 5

\* list(range(lo, hi))
RangeList(lo, hi) == [p \in 1..(hi - lo) |-> lo + p - 1]

(***************************************************************************)
(* clustering.py: analyze_cluster_characteristics                          *)
(***************************************************************************)

\* line 125, astype(str): the decimal text of an integer cell.
Str(x) == IF x < 0 THEN <<"-">> \o Digits(0 - x) ELSE Digits(x)

\* line 125, Series.str.zfill: '0' characters added on the left up to the width.
ZFill(str, width) == Zeros(width - Len(str)) \o str

\* line 125: the identifier rebuilt from the STATE and COUNTY cells of a row.
RebuiltGeoid(row) == ZFill(Str(row.STATE), 2) \o ZFill(Str(row.COUNTY), 3)

\* line 125: data['GEOID'] = ... assigns the column on the frame passed in:
\* a new last column, or the cells of an existing GEOID column.
AssignGeoid(table) ==
    [columns |-> AddNode(table.columns, "GEOID"),
     rows    |-> [p \in DOMAIN table.rows |->
                     [f \in DOMAIN table.rows[p] \cup {"GEOID"} |->
                         IF f = "GEOID" THEN RebuiltGeoid(table.rows[p]) ELSE table.rows[p][f]]]]

\* line 127: data.merge(clustered_df, on='GEOID', how='inner'): for every
\* row of data, in order, one row per row of clustered_df with its GEOID.
RECURSIVE InnerMerge(_, _, _)
InnerMerge(rows, clusters, p) ==
    IF p > Len(rows) THEN <<>>
    ELSE LET matches == SelectSeq(clusters, LAMBDA c : c.GEOID = rows[p].GEOID)
         IN  [q \in DOMAIN matches |->
                 [f \in DOMAIN rows[p] \cup {"Cluster"} |->
                     IF f = "Cluster" THEN matches[q].Cluster ELSE rows[p][f]]]
             \o InnerMerge(rows, clusters, p + 1)

\* line 129: groupby('Cluster')[feature_cols].mean(): one row per cluster of
\* merged, clusters ascending, the mean of the feature over the cluster's rows.
RECURSIVE GroupMeans(_, _)
GroupMeans(rows, clusters) ==
    IF clusters = {} THEN <<>>
    ELSE LET least == CHOOSE c \in clusters : \A d \in clusters : c <= d
             group == SelectSeq(rows, LAMBDA r : r.Cluster = least)
         IN  <<[Cluster |-> least, feature_1 |-> Mean([p \in DOMAIN group |-> group[p].feature_1])]>>
             \o GroupMeans(rows, clusters \ {least})

\* lines 121-131
AnalyzeClusterCharacteristics ==
    /\ pc = "clustered"
    /\ data' = AssignGeoid(data)
    /\ merged_df' = InnerMerge(data'.rows, clustered_df, 1)
    /\ cluster_summary' = GroupMeans(merged_df', {merged_df'[p].Cluster : p \in DOMAIN merged_df'})
    /\ pc' = "summarised"
    /\ UNCHANGED <<raised, adjacency_df, similarity_df, adjVars, year, network_data, DG, row_i,
                   pairVars, cluVars, evalVars, rankVars, flattened_features>>

\* The state and county codes of the counties.
StateCodes == 0..99

CountyCodes == 0..999

\* The counties that were clustered: a first county that takes every state
\* code (with a few county codes) and every county code (with a few state
\* codes), and a second county out of two.
FewStateCodes == {0, 12}

FewCountyCodes == {0, 3, 45, 999}

FirstCounties == (StateCodes \X FewCountyCodes) \cup (FewStateCodes \X CountyCodes)

OtherCounties == {<<1, 1>>, <<12, 3>>}

ClusteredCounties ==
    {<<first, second>> \in FirstCounties \X OtherCounties : first # second}

\* The feature table the similarity matrix of two counties was computed from.
FeaturesOf(counties) ==
    [index |-> counties, values |-> <<<<0, 1>>, <<1, 0>>>>]

\* The demographic table passed to analyze_cluster_characteristics: a row
\* for each clustered county, in another order than the matrix, and a row
\* for a county whose codes are those of the first with state and county
\* swapped.
DemographicRow(county, value) ==
    [STATE |-> county[1], COUNTY |-> county[2], feature_1 |-> value]

DemographicTable(counties) ==
    [columns |-> <<"STATE", "COUNTY", "feature_1">>,
     rows    |-> <<DemographicRow(counties[2], 1),
                   DemographicRow(<<counties[1][2] % 100, counties[1][1]>>, 2),
                   DemographicRow(counties[1], 3)>>]

(***************************************************************************)
(* Specifications: one per function or chain of functions.                 *)
(***************************************************************************)

\* The tables of the functions a run does not call.
NoAdjacency == gdf = <<>> /\ G = EmptyGraph /\ degree_df = <<>>
NoNetwork   == data = <<>> /\ year = 0 /\ network_data = <<>> /\ DG = EmptyDiGraph /\ row_i = 0
NoPairs     == n = 0 /\ similarity_long = <<>>
NoCluster   == n_clusters = 0 /\ kmeans_labels = <<>> /\ distance_matrix = <<>> /\ clustered_df = <<>>
NoEvaluate  == /\ n_samples = 0 /\ k_range = <<>> /\ k_i = 0 /\ fits = <<>>
               /\ inertia = <<>> /\ silhouette_scores = <<>> /\ metrics = <<>>
NoRank      == pagerank_df = <<>> /\ max_county = <<>>
NoFeatures  == flattened_features = <<>>
NoSummary   == merged_df = <<>> /\ cluster_summary = <<>>

InitAdjacency ==
    /\ pc = "shapefile"
    /\ raised = "none"
    /\ gdf \in Shapefiles
    /\ adjacency_df = <<>>
    /\ G = EmptyGraph
    /\ degree_df = <<>>
    /\ similarity_df = <<>>
    /\ NoNetwork /\ NoPairs /\ NoCluster /\ NoEvaluate
    /\ NoRank /\ NoFeatures /\ NoSummary

NextAdjacency == BuildAdjacencyGraph \/ GetDegreeCentrality

SpecAdjacency == InitAdjacency /\ [][NextAdjacency]_vars

InitWeighted ==
    /\ pc = "adjacency"
    /\ raised = "none"
    /\ adjacency_df \in SeqsUpTo(AdjacencyRows, MaxAdjRows)
    /\ data \in SeqsUpTo(DataRows, MaxDataRows)
    /\ year \in Years
    /\ network_data = <<>>
    /\ DG = EmptyDiGraph
    /\ row_i = 0
    /\ similarity_df = <<>>
    /\ NoAdjacency /\ NoPairs /\ NoCluster /\ NoEvaluate
    /\ NoRank /\ NoFeatures /\ NoSummary

NextWeighted == PrepareWeightedNetworkData

SpecWeighted == InitWeighted /\ [][NextWeighted]_vars

InitPageRank ==
    /\ pc = "pagerank"
    /\ raised = "none"
    /\ network_data \in SeqsUpTo(NetworkRows, MaxNetRows)
    /\ DG = EmptyDiGraph
    /\ row_i = 1
    /\ adjacency_df = <<>>
    /\ data = <<>>
    /\ year = 0
    /\ similarity_df = <<>>
    /\ NoAdjacency /\ NoPairs /\ NoCluster /\ NoEvaluate
    /\ NoRank /\ NoFeatures /\ NoSummary

NextPageRank == CalculatePagerankRow \/ CalculatePagerankScores

SpecPageRank == InitPageRank /\ [][NextPageRank]_vars

\* The pipeline: the shapefile is read, the adjacency list
\* built, the weighted rows prepared and PageRank computed.
InitNetwork ==
    /\ pc = "shapefile"
    /\ raised = "none"
    /\ gdf \in Shapefiles
    /\ adjacency_df = <<>>
    /\ G = EmptyGraph
    /\ degree_df = <<>>
    /\ data \in MetricTables
    /\ year = TargetYear
    /\ network_data = <<>>
    /\ DG = EmptyDiGraph
    /\ row_i = 1
    /\ similarity_df = <<>>
    /\ NoPairs /\ NoCluster /\ NoEvaluate
    /\ NoRank /\ NoFeatures /\ NoSummary

NextNetwork ==
    \/ BuildAdjacencyGraph
    \/ PrepareWeightedNetworkData
    \/ CalculatePagerankRow
    \/ CalculatePagerankScores

SpecNetwork == InitNetwork /\ [][NextNetwork]_vars

InitSimilarity ==
    /\ pc = "features"
    /\ raised = "none"
    /\ \E rows \in 1..MaxFeatureRows : flattened_features \in FeatureTables(rows)
    /\ similarity_df = <<>>
    /\ adjacency_df = <<>>
    /\ NoAdjacency /\ NoNetwork /\ NoPairs /\ NoCluster /\ NoEvaluate
    /\ NoRank /\ NoSummary

NextSimilarity == CalculateCountySimilarity

SpecSimilarity == InitSimilarity /\ [][NextSimilarity]_vars

\* perform_clustering has returned the labels of two counties whose matrix
\* calculate_county_similarity built; the demographic table is at hand.
InitCharacterise ==
    /\ pc = "clustered"
    /\ raised = "none"
    /\ \E counties \in ClusteredCounties :
          /\ flattened_features = FeaturesOf(counties)
          /\ data = DemographicTable(counties)
    /\ similarity_df = SimilarityFrame(flattened_features)
    /\ n_clusters = 2
    /\ kmeans_labels = <<0, 1>>
    /\ distance_matrix = <<>>
    /\ clustered_df = [p \in DOMAIN similarity_df.index |->
                          [GEOID |-> similarity_df.index[p], Cluster |-> kmeans_labels[p]]]
    /\ merged_df = <<>>
    /\ cluster_summary = <<>>
    /\ adjacency_df = <<>>
    /\ year = 0 /\ network_data = <<>> /\ DG = EmptyDiGraph /\ row_i = 0
    /\ NoAdjacency /\ NoPairs /\ NoEvaluate /\ NoRank

NextCharacterise == AnalyzeClusterCharacteristics

SpecCharacterise == InitCharacterise /\ [][NextCharacterise]_vars

InitPairs ==
    /\ pc = "similarity"
    /\ raised = "none"
    /\ similarity_df \in SimilarityFrames(GeoIds, PairSimilarities)
    /\ n \in 0..MaxN
    /\ similarity_long = <<>>
    /\ adjacency_df = <<>>
    /\ NoAdjacency /\ NoNetwork /\ NoCluster /\ NoEvaluate
    /\ NoRank /\ NoFeatures /\ NoSummary

NextPairs == GetTopSimilarPairs

SpecPairs == InitPairs /\ [][NextPairs]_vars

InitCluster ==
    /\ pc = "similarity"
    /\ raised = "none"
    /\ similarity_df \in SimilarityFrames(ClusterIds, 0..MaxSim)
    /\ n_clusters \in 1..MaxClusters
    /\ kmeans_labels \in [DOMAIN ClusterIds -> 0..(n_clusters - 1)]
    /\ distance_matrix = <<>>
    /\ clustered_df = <<>>
    /\ adjacency_df = <<>>
    /\ NoAdjacency /\ NoNetwork /\ NoPairs /\ NoEvaluate
    /\ NoRank /\ NoFeatures /\ NoSummary

NextCluster == PerformClustering

SpecCluster == InitCluster /\ [][NextCluster]_vars

InitEvaluate ==
    /\ pc = "evaluate"
    /\ raised = "none"
    /\ n_samples \in 1..MaxSamples
    /\ \E lo \in 1..MaxK : \E hi \in lo..(MaxK + 1) : k_range = RangeList(lo, hi)
    /\ k_i = 1
    /\ fits = <<>>
    /\ inertia = <<>>
    /\ silhouette_scores = <<>>
    /\ metrics = <<>>
    /\ adjacency_df = <<>>
    /\ similarity_df = <<>>
    /\ NoAdjacency /\ NoNetwork /\ NoPairs /\ NoCluster
    /\ NoRank /\ NoFeatures /\ NoSummary

NextEvaluate == EvaluateIteration \/ EvaluateReturn

SpecEvaluate == InitEvaluate /\ [][NextEvaluate]_vars

(***************************************************************************)
(* Claims on build_adjacency_graph and get_degree_centrality, checked      *)
(* under SpecAdjacency.                                                    *)
(***************************************************************************)

\* The counties a polygon touches, read off the shapefile.
TouchedBy(idx) == {gdf.keys[j] : j \in {x \in DOMAIN gdf.keys : <<idx, x>> \in gdf.touches}}

TouchEdges == {{gdf.keys[p[1]], gdf.keys[p[2]]} : p \in gdf.touches}

HasReturnedGraph == pc \in {"built", "degree"}

\* C2: for every set of county polygons build_adjacency_graph returns an
\* undirected graph that holds the edge {A,B} whenever A touches B, holds no
\* self-loop and no edge twice, and a second build from the same input yields
\* the same edge set.
C2_BuildReturnsTouchGraph ==
    pc # "shapefile" =>
        /\ HasReturnedGraph
        /\ TouchEdges \subseteq G.edges
        /\ \A e \in G.edges : Cardinality(e) = 2
        /\ GraphOf(SortValues(DropDuplicates(AdjacencyList(gdf, 1)))).edges = G.edges

\* What does hold of build_adjacency_graph: whenever it returns, the graph's
\* edges are exactly the touching pairs, and none is a self-loop.
C2_WhenReturned ==
    HasReturnedGraph =>
        /\ G.edges = TouchEdges
        /\ \A e \in G.edges : Cardinality(e) = 2

\* C6: after build_adjacency_graph and get_degree_centrality, a county whose
\* polygon touches no other county has a row with Degree = 0.
C6_IsolatedCountyDegreeZero ==
    pc = "degree" =>
        \A idx \in DOMAIN gdf.keys :
            TouchedBy(idx) = {} =>
                \E p \in DOMAIN degree_df :
                    /\ <<degree_df[p].STATE, degree_df[p].COUNTY>> = gdf.keys[idx]
                    /\ degree_df[p].Degree = 0

\* The shapefile of the end-to-end scenario: the first four counties in a
\* line, A-B, B-C, C-D, and nothing else touching.
IsLine ==
    gdf.touches = {<<1, 2>>, <<2, 1>>, <<2, 3>>, <<3, 2>>, <<3, 4>>, <<4, 3>>}

DegreeRowsOf(county) ==
    {p \in DOMAIN degree_df : <<degree_df[p].STATE, degree_df[p].COUNTY>> = county}

ReportedDegree(county) == degree_df[CHOOSE p \in DegreeRowsOf(county) : TRUE].Degree

\* C7: for a graph produced by build_adjacency_graph, get_degree_centrality
\* reports for every county of the graph a Degree equal to the number of
\* distinct other counties it touches; for four counties in a line it reports
\* A=1, B=2, C=2, D=1.
C7_DegreeIsNeighbourCount ==
    pc = "degree" =>
        /\ \A idx \in DOMAIN gdf.keys :
              gdf.keys[idx] \in Range(G.nodes) =>
                 /\ Cardinality(DegreeRowsOf(gdf.keys[idx])) = 1
                 /\ ReportedDegree(gdf.keys[idx]) = Cardinality(TouchedBy(idx) \ {gdf.keys[idx]})
        /\ IsLine =>
              /\ ReportedDegree(gdf.keys[1]) = 1
              /\ ReportedDegree(gdf.keys[2]) = 2
              /\ ReportedDegree(gdf.keys[3]) = 2
              /\ ReportedDegree(gdf.keys[4]) = 1

\* C7's case: the line of four counties has been built and its degrees reported.
C7_Witness ==
    /\ pc = "degree"
    /\ IsLine
    /\ {gdf.keys[i] : i \in 1..4} \subseteq Range(G.nodes)
    /\ Len(degree_df) = 4

PositionIn(nodes, county) == CHOOSE p \in DOMAIN nodes : nodes[p] = county

\* C8: get_degree_centrality returns its rows in non-increasing order of
\* Degree, and counties of equal Degree in the order in which they were
\* inserted into the graph.
C8_DegreeSortedTiesInInsertionOrder ==
    pc = "degree" =>
        \A p, q \in DOMAIN degree_df :
            p < q =>
                /\ degree_df[p].Degree >= degree_df[q].Degree
                /\ degree_df[p].Degree = degree_df[q].Degree =>
                      PositionIn(G.nodes, <<degree_df[p].STATE, degree_df[p].COUNTY>>)
                        < PositionIn(G.nodes, <<degree_df[q].STATE, degree_df[q].COUNTY>>)

\* The part of C8 that holds: the rows are in non-increasing order of Degree.
C8_DegreeNonIncreasing ==
    pc = "degree" =>
        \A p, q \in DOMAIN degree_df : p < q => degree_df[p].Degree >= degree_df[q].Degree

\* The (source, neighbor) pair of a row of the adjacency list.
AdjPairOf(row) == <<<<row.County_STATE, row.COUNTY>>, <<row.Neighbor_STATE, row.Neighbor_COUNTY>>>>

\* C15: the adjacency list build_adjacency_graph returns has no two identical
\* rows, is sorted ascending lexicographically by (source state, source
\* county, neighbor state, neighbor county), has no row whose source county
\* equals its neighbor county, and holds the row (B,A) whenever it holds (A,B).
C15_AdjacencyListIsCanonical ==
    HasReturnedGraph =>
        /\ \A p, q \in DOMAIN adjacency_df : adjacency_df[p] = adjacency_df[q] => p = q
        /\ \A p, q \in DOMAIN adjacency_df : p < q => AdjRowLess(adjacency_df[p], adjacency_df[q])
        /\ \A p \in DOMAIN adjacency_df : AdjPairOf(adjacency_df[p])[1] # AdjPairOf(adjacency_df[p])[2]
        /\ \A p \in DOMAIN adjacency_df :
              \E q \in DOMAIN adjacency_df :
                  AdjPairOf(adjacency_df[q]) = <<AdjPairOf(adjacency_df[p])[2], AdjPairOf(adjacency_df[p])[1]>>

\* C15's case: a list of at least four rows is returned, and the loop had
\* appended its rows in another order than the sorted one.
C15_Witness ==
    /\ pc = "built"
    /\ Len(adjacency_df) >= 4
    /\ AdjacencyList(gdf, 1) # adjacency_df

(***************************************************************************)
(* Claims on prepare_weighted_network_data, checked under SpecWeighted.    *)
(***************************************************************************)

\* A county has a metric value for the target year: some row of the metric
\* table for that county and year holds a number.
HasMetricValue(county) ==
    \E p \in DOMAIN data :
        /\ <<data[p].STATE, data[p].COUNTY>> = county
        /\ data[p].YEAR = year
        /\ data[p].metric # NaN

BothSidesHaveMetric(row) ==
    /\ HasMetricValue(<<row.County_STATE, row.COUNTY>>)
    /\ HasMetricValue(<<row.Neighbor_STATE, row.Neighbor_COUNTY>>)

PairOf(row) == <<row.County_STATE, row.COUNTY, row.Neighbor_STATE, row.Neighbor_COUNTY>>

\* C3: prepare_weighted_network_data returns exactly one row for each
\* adjacency row whose source and neighbor county both have a metric value
\* for the target year, in the adjacency list's order, and no other row: a row
\* missing a metric is dropped, not filled with zero, and nothing is raised.
C3_RowsAreThePairsWithBothMetrics ==
    pc = "prepared" =>
        LET kept == SelectSeq(adjacency_df, BothSidesHaveMetric)
        IN  /\ raised = "none"
            /\ Len(network_data) = Len(kept)
            /\ \A p \in DOMAIN network_data :
                  /\ PairOf(network_data[p]) = PairOf(kept[p])
                  /\ network_data[p].YEAR = year
                  /\ ~IsNaN(network_data[p].metric_County)
                  /\ ~IsNaN(network_data[p].metric_Neighbor)

\* C3's case: one adjacency row is kept and another is dropped for a county
\* that has no metric value for the target year.
C3_Witness ==
    /\ pc = "prepared"
    /\ Len(network_data) = 1
    /\ Len(adjacency_df) = 2
    /\ \E p \in DOMAIN adjacency_df : ~BothSidesHaveMetric(adjacency_df[p])

(***************************************************************************)
(* Claims on calculate_pagerank, checked under SpecPageRank.               *)
(***************************************************************************)

SourceOf(row) == <<row.County_STATE, row.COUNTY>>

NeighborOf(row) == <<row.Neighbor_STATE, row.Neighbor_COUNTY>>

\* The first row in which a county occurs as source.
FirstRowOfSource(county) ==
    CHOOSE p \in DOMAIN network_data :
        /\ SourceOf(network_data[p]) = county
        /\ \A q \in 1..(p - 1) : SourceOf(network_data[q]) # county

\* C1: in the graph calculate_pagerank builds, every row contributes the edge
\* source->neighbor weighted with a neighbor-metric of such a row, and every
\* county that occurs as a source has the self-loop source->source weighted
\* with the source-metric of the first row in which it occurs as source,
\* whatever rows follow (rows whose neighbor is the source included).
C1_SelfLoopHasFirstSourceMetric ==
    pc = "graph" =>
        \A p \in DOMAIN network_data :
            LET source   == SourceOf(network_data[p])
                neighbor == NeighborOf(network_data[p])
            IN  /\ <<source, neighbor>> \in DG.edges
                /\ neighbor # source =>
                      \E q \in DOMAIN network_data :
                          /\ SourceOf(network_data[q]) = source
                          /\ NeighborOf(network_data[q]) = neighbor
                          /\ DG.weight[<<source, neighbor>>] = network_data[q].metric_Neighbor
                /\ <<source, source>> \in DG.edges
                /\ DG.weight[<<source, source>>]
                      = network_data[FirstRowOfSource(source)].metric_County

\* What does hold of calculate_pagerank: the self-loop of a source keeps the
\* source-metric of its first row when no row of that source names the source
\* as its own neighbor.
C1_WithoutSelfPairs ==
    pc = "graph" =>
        \A p \in DOMAIN network_data :
            LET source == SourceOf(network_data[p])
            IN  (\A q \in DOMAIN network_data :
                    SourceOf(network_data[q]) = source => NeighborOf(network_data[q]) # source)
                => /\ <<source, source>> \in DG.edges
                   /\ DG.weight[<<source, source>>]
                         = network_data[FirstRowOfSource(source)].metric_County

(***************************************************************************)
(* Claims on the pipeline build_adjacency_graph ->                         *)
(* prepare_weighted_network_data -> calculate_pagerank, checked under      *)
(* SpecNetwork.                                                            *)
(***************************************************************************)

AdjPairs == {AdjPairOf(adjacency_df[p]) : p \in DOMAIN adjacency_df}

IsSymmetricAndSelfPairFree ==
    \A pair \in AdjPairs : pair[1] # pair[2] /\ <<pair[2], pair[1]>> \in AdjPairs

HasGraph == pc \in {"graph", "ranked"}

\* The metric value of a county for the target year, read off the table.
MetricOf(county) == MetricData(data, year)[county].metric

\* C16: when the adjacency list is symmetric and self-pair-free and the rows
\* come from prepare_weighted_network_data, the directed graph has an edge
\* A->B iff it has B->A, every node occurs as a source and has exactly one
\* self-loop, and the weight of every edge X->Y, X->X included, is the metric
\* value of Y for the target year.
C16_GraphOfPreparedRows ==
    (HasGraph /\ IsSymmetricAndSelfPairFree) =>
        /\ \A e \in DG.edges : <<e[2], e[1]>> \in DG.edges
        /\ \A p \in DOMAIN DG.nodes :
              /\ \E q \in DOMAIN network_data : SourceOf(network_data[q]) = DG.nodes[p]
              /\ Cardinality({e \in DG.edges : e[1] = DG.nodes[p] /\ e[2] = DG.nodes[p]}) = 1
        /\ \A e \in DG.edges : DG.weight[e] = MetricOf(e[2])

\* C16's case: a graph of at least three counties whose metric values differ.
C16_Witness ==
    /\ HasGraph
    /\ Len(DG.nodes) >= 3
    /\ \E e \in DG.edges : DG.weight[e] # DG.weight[<<e[1], e[1]>>]

\* The scenario of four counties in a line, every county with the metric 1.
IsUniformLine ==
    /\ IsLine
    /\ \A i \in 1..4 :
          /\ gdf.keys[i] \in DOMAIN MetricData(data, year)
          /\ MetricOf(gdf.keys[i]) = Fraction(1, 1)

PageRankRowsOf(county) ==
    {p \in DOMAIN pagerank_df : <<pagerank_df[p].County_STATE, pagerank_df[p].COUNTY>> = county}

PageRankOf(county) == pagerank_df[CHOOSE p \in PageRankRowsOf(county) : TRUE].PageRank

\* C12: with the uniform metric weight 1, four counties in a line A-B-C-D run
\* through prepare_weighted_network_data and calculate_pagerank get PageRank
\* scores of B and of C strictly greater than those of A and of D, and the
\* county reported as highest-scoring is B or C.
C12_LineMiddleCountiesRankHighest ==
    (pc = "ranked" /\ IsUniformLine) =>
        /\ \A i \in 1..4 : Cardinality(PageRankRowsOf(gdf.keys[i])) = 1
        /\ \A mid \in {2, 3} : \A end \in {1, 4} :
              PageRankOf(gdf.keys[mid]) > PageRankOf(gdf.keys[end])
        /\ <<max_county[1], max_county[2]>> \in {gdf.keys[2], gdf.keys[3]}
        /\ max_county[3] = PageRankOf(gdf.keys[2])

\* C12's case: the line of four counties with metric 1 has been ranked.
C12_Witness ==
    /\ pc = "ranked"
    /\ IsUniformLine
    /\ Len(pagerank_df) = 4

(***************************************************************************)
(* Claims on get_top_similar_pairs, checked under SpecPairs.               *)
(***************************************************************************)

\* The place of a (GEOID_1, GEOID_2) pair in the flattening of the matrix.
EnumerationPlace(row) ==
    LET flat == Unstack(similarity_df)
    IN  CHOOSE p \in DOMAIN flat :
            flat[p].GEOID_1 = row.GEOID_1 /\ flat[p].GEOID_2 = row.GEOID_2

\* The non-self triples of the matrix that were not returned.
NotReturned ==
    LET flat == Unstack(similarity_df)
    IN  {flat[p] : p \in {q \in DOMAIN flat :
                            /\ flat[q].GEOID_1 # flat[q].GEOID_2
                            /\ flat[q] \notin Range(similarity_long)}}

\* C4: get_top_similar_pairs returns at most n triples of the matrix, none
\* with two equal county identifiers, in non-increasing order of similarity,
\* and every returned triple has a similarity >= that of every non-self
\* triple that was not returned.
C4_TopPairs ==
    pc = "pairs" =>
        /\ Len(similarity_long) <= n
        /\ \A p \in DOMAIN similarity_long :
              /\ similarity_long[p].GEOID_1 # similarity_long[p].GEOID_2
              /\ similarity_long[p] \in Range(Unstack(similarity_df))
              /\ \A q \in DOMAIN similarity_long :
                    p < q => similarity_long[p].Similarity >= similarity_long[q].Similarity
              /\ \A other \in NotReturned :
                    similarity_long[p].Similarity >= other.Similarity

\* C4's case: n cuts the list, and a triple of lower similarity than a
\* returned one is left out.
C4_Witness ==
    /\ pc = "pairs"
    /\ n > 0
    /\ Len(similarity_long) = n
    /\ \E other \in NotReturned : similarity_long[1].Similarity > other.Similarity

\* C9: triples of equal similarity are returned in the order in which the
\* flattening enumerated them, and of tied triples the earlier enumerated
\* ones fall inside the first n.
C9_TiesInEnumerationOrder ==
    pc = "pairs" =>
        \A p \in DOMAIN similarity_long :
            /\ \A q \in DOMAIN similarity_long :
                  (p < q /\ similarity_long[p].Similarity = similarity_long[q].Similarity)
                     => EnumerationPlace(similarity_long[p]) < EnumerationPlace(similarity_long[q])
            /\ \A other \in NotReturned :
                  similarity_long[p].Similarity = other.Similarity
                     => EnumerationPlace(similarity_long[p]) < EnumerationPlace(other)

(***************************************************************************)
(* Claims on calculate_county_similarity, checked under SpecSimilarity.    *)
(***************************************************************************)

HasZeroVarianceColumn ==
    /\ ~HasMissingCell(flattened_features.values)
    /\ \E c \in DOMAIN FeatureCols : HasZeroVariance(flattened_features.values, c)

\* C11: calculate_county_similarity fails with InvalidInputError, returning
\* no matrix, whenever some feature column has zero variance.
C11_ZeroVarianceRaisesInvalidInput ==
    (pc # "features" /\ HasZeroVarianceColumn) =>
        /\ pc = "raised"
        /\ raised = "InvalidInputError"
        /\ similarity_df = <<>>

\* What does hold of a table with a zero-variance column: the function
\* returns a matrix, with one row and one column per county.
C11_ZeroVarianceReturnsMatrix ==
    (pc # "features" /\ HasZeroVarianceColumn) =>
        /\ pc = "similarity"
        /\ DOMAIN similarity_df.values = DOMAIN flattened_features.index

(***************************************************************************)
(* Claims on perform_clustering, checked under SpecCluster.                *)
(***************************************************************************)

\* 0 <= x <= 1 for a float x; no comparison with NaN holds.
InUnitRange(x) == ~IsNaN(x) /\ 0 <= x.num /\ x.num <= x.den

\* x == y for floats; NaN equals nothing.
FloatEq(x, y) == ~IsNaN(x) /\ ~IsNaN(y) /\ x = y

IsSymmetric(m) == \A r \in DOMAIN m, c \in DOMAIN m : m[r][c] = m[c][r]

AllCellsEqual(m) == Cardinality(MatrixCells(m)) = 1

DistanceMatrixIsSound ==
    /\ \A r \in DOMAIN distance_matrix, c \in DOMAIN distance_matrix :
          InUnitRange(distance_matrix[r][c])
    /\ \A r \in DOMAIN distance_matrix : FloatEq(distance_matrix[r][r], Fraction(0, 1))
    /\ IsSymmetric(similarity_df.values) =>
          \A r \in DOMAIN distance_matrix, c \in DOMAIN distance_matrix :
              FloatEq(distance_matrix[r][c], distance_matrix[c][r])

\* C5: the distance matrix perform_clustering derives from any similarity
\* matrix has every entry in [0,1], is symmetric when the input is, and has
\* an all-zero diagonal - the matrix whose entries are all equal included.
C5_DistanceMatrixInUnitRange ==
    pc # "similarity" => DistanceMatrixIsSound

\* What does hold of the distance matrix: C5 for every matrix whose entries
\* are not all equal.
C5_WhenNotAllEqual ==
    (pc # "similarity" /\ ~AllCellsEqual(similarity_df.values)) => DistanceMatrixIsSound

HasReturnedClusters == pc \in {"clustered", "clustered_again"}

\* What a call that returns hands back: one row per row of the similarity
\* matrix, in row order, each with a label that is an integer of 0..k-1.
OneLabelledRowPerMatrixRow ==
    /\ DOMAIN clustered_df = DOMAIN similarity_df.index
    /\ \A p \in DOMAIN clustered_df :
          /\ clustered_df[p].GEOID = similarity_df.index[p]
          /\ clustered_df[p].Cluster \in 0..(n_clusters - 1)

SomeKExceedsRows == \E p \in DOMAIN k_range : k_range[p] > n_samples

\* C10: when some k of the range exceeds the rows of the matrix,
\* evaluate_clustering_performance fails, returning nothing, and fails before
\* any computation: no K-Means fit for a smaller k has run.
C10_FailsBeforeAnyFit ==
    SomeKExceedsRows =>
        /\ pc # "returned"
        /\ metrics = <<>>
        /\ (pc = "raised" /\ k_range[k_i] > n_samples) => (fits = <<>> /\ inertia = <<>>)

\* What does hold of evaluate_clustering_performance: with a k that exceeds
\* the rows it returns nothing.
C10_NothingReturned ==
    SomeKExceedsRows => (pc # "returned" /\ metrics = <<>>)

\* C14: on success evaluate_clustering_performance returns three parallel
\* sequences k_values, inertia and silhouette of equal length, one entry per k
\* of the candidate range in range order, entry i of inertia and of silhouette
\* being the value computed for k_values[i]; it returns no chosen k.
C14_ParallelSequencesNoChosenK ==
    pc = "returned" =>
        /\ DOMAIN metrics = {"k_values", "inertia", "silhouette"}
        /\ metrics.k_values = k_range
        /\ Len(metrics.inertia) = Len(metrics.k_values)
        /\ Len(metrics.silhouette) = Len(metrics.k_values)
        /\ \A p \in DOMAIN metrics.k_values :
              /\ metrics.inertia[p] = InertiaOf(metrics.k_values[p])
              /\ metrics.silhouette[p] = SilhouetteOf(metrics.k_values[p])

\* C14's case: the function has returned the metrics of at least two k.
C14_Witness ==
    /\ pc = "returned"
    /\ Len(metrics.k_values) >= 2

(***************************************************************************)
(* Claims on the county identifiers and on analyze_cluster_characteristics, *)
(* checked under SpecCharacterise.                                         *)
(***************************************************************************)

IsDigit(ch) == \E d \in 0..9 : DigitChar(d) = ch

DigitValue(ch) == CHOOSE d \in 0..9 : DigitChar(d) = ch

\* The number a string of digits reads as.
RECURSIVE ParseDigits(_)
ParseDigits(str) ==
    IF str = <<>> THEN 0
    ELSE 10 * ParseDigits(SubSeq(str, 1, Len(str) - 1)) + DigitValue(str[Len(str)])

\* The identifier is five digits: two that read as the state code, then
\* three that read as the county code.
IsFiveDigitCodeOf(id, county) ==
    /\ Len(id) = 5
    /\ \A p \in DOMAIN id : IsDigit(id[p])
    /\ ParseDigits(SubSeq(id, 1, 2)) = county[1]
    /\ ParseDigits(SubSeq(id, 3, 5)) = county[2]

CountyOfRow(row) == <<row.STATE, row.COUNTY>>

\* The counties of the run: the clustered ones and those of the demographic table.
CountiesAtHand ==
    Range(flattened_features.index) \cup {CountyOfRow(data.rows[p]) : p \in DOMAIN data.rows}

\* The (row of data, row of clustered_df) pairs that are the same county.
SameCountyPairs ==
    {pq \in (DOMAIN data.rows) \X (DOMAIN clustered_df) :
        CountyOfRow(data.rows[pq[1]]) = flattened_features.index[pq[2]]}

\* C17: for every state code in 0..99 and county code in 0..999 the
\* identifier calculate_county_similarity derives is exactly five characters,
\* the two-digit zero-padded state followed by the three-digit zero-padded
\* county, and equals the identifier analyze_cluster_characteristics rebuilds
\* for the same pair; distinct pairs get distinct identifiers, so the join on
\* the identifier matches each county to its own cluster label and no other.
C17_IdentifiersAgreeAndJoinIsExact ==
    /\ \A q \in DOMAIN similarity_df.index :
          /\ flattened_features.index[q] \in StateCodes \X CountyCodes
          /\ IsFiveDigitCodeOf(similarity_df.index[q], flattened_features.index[q])
    /\ \A c1, c2 \in CountiesAtHand : FormatGeoid(c1) = FormatGeoid(c2) => c1 = c2
    /\ pc = "summarised" =>
          /\ \A p \in DOMAIN data.rows :
                data.rows[p].GEOID = FormatGeoid(CountyOfRow(data.rows[p]))
          /\ Len(merged_df) = Cardinality(SameCountyPairs)
          /\ \A m \in DOMAIN merged_df :
                \E pq \in SameCountyPairs :
                    /\ CountyOfRow(merged_df[m]) = CountyOfRow(data.rows[pq[1]])
                    /\ merged_df[m].Cluster = kmeans_labels[pq[2]]

\* C17's case: two clustered counties, the first with a one-digit state code
\* and a county code below 100, have been joined to their labels.
C17_Witness ==
    /\ pc = "summarised"
    /\ Len(merged_df) >= 2
    /\ flattened_features.index[1][1] \in 1..9
    /\ flattened_features.index[1][2] \in 1..99

\* C18: perform_clustering does not alter any entry of similarity_df, and
\* analyze_cluster_characteristics alters neither the cluster assignment nor
\* the demographic table passed to it: the same columns and the same rows
\* after the call as before.
C18_InputsUnaltered ==
    [][/\ similarity_df' = similarity_df
       /\ clustered_df' = clustered_df
       /\ data' = data]_vars

\* What does hold of analyze_cluster_characteristics: the similarity matrix
\* and the cluster assignment are unaltered, and the demographic table keeps
\* its rows and columns but gains the column GEOID.
C18_OnlyGeoidColumnAdded ==
    [][/\ similarity_df' = similarity_df
       /\ clustered_df' = clustered_df
       /\ data'.columns = Append(data.columns, "GEOID")
       /\ \A p \in DOMAIN data.rows : \A f \in DOMAIN data.rows[p] :
             data'.rows[p][f] = data.rows[p][f]]_vars

\* What does hold of perform_clustering, under SpecCluster: no entry of
\* similarity_df is altered.
C18_SimilarityUnaltered == [][similarity_df' = similarity_df]_vars

====
